---- MODULE Spec2Model ----
(***************************************************************************)
(* Model of segments.py: an image is decoded to an RGBA grid, segmented    *)
(* into 4-connected same-colour regions by an explicit-stack flood fill,   *)
(* and written out as DXF outlines (four grouping modes), a bordered       *)
(* preview raster and one mask per colour.                                 *)
(* Coordinates are 0-based as in the source: a grid is a function          *)
(* [0..height-1 -> [0..width-1 -> pixel]], a pixel is <<r, g, b, a>>.      *)
(***************************************************************************)
EXTENDS Integers, Sequences, FiniteSets, TLC

VARIABLES
    pc,           \* position of main() / find_connected_regions()
    input_exists, \* os.path.exists(input_image_path)
    image,        \* the decoded content of the input file
    dirs,         \* directories that exist below (and including) output_folder
    files,        \* files below output_folder: path -> content
    color_array,  \* main: create_color_array(...)
    hex_array,    \* main: convert_array_to_hex(color_array)
    visited,      \* find_connected_regions: visited
    regions,      \* find_connected_regions: regions (dict in insertion order)
    sx, sy,       \* find_connected_regions: loop variables x, y
    color,        \* explore_region: color
    stack,        \* explore_region: stack
    region,       \* explore_region: region
    pushes        \* number of coordinates ever put on a stack

vars == <<pc, input_exists, image, dirs, files, color_array, hex_array,
          visited, regions, sx, sy, color, stack, region, pushes>>

----------------------------------------------------------------------------
(* Bounds of the model *)

\* a generated input grid has at most MaxCells pixels (width * height)
MaxCells == 6

----------------------------------------------------------------------------
(* Command line defaults *)

pixel_size == 5
line_width == 2
unit == "mm"
output_name == "img"
Dpi == 300
DefaultAci == 7

----------------------------------------------------------------------------
(* Grids *)

None == <<"None">>

Height(arr) == Cardinality(DOMAIN arr)
Width(arr) == Cardinality(DOMAIN arr[0])

Coords(arr) == {<<x, y>> : x \in 0..(Width(arr) - 1), y \in 0..(Height(arr) - 1)}

\* pixel values of the generated grids: opaque red, fully transparent red,
\* half-transparent green
Pixels == {<<255, 0, 0, 255>>, <<255, 0, 0, 0>>, <<0, 255, 0, 128>>}

GridsOf(w, h, P) == [0..(h - 1) -> [0..(w - 1) -> P]]

BoundedGrids ==
    UNION {GridsOf(w, h, Pixels) :
             <<w, h>> \in {s \in (1..MaxCells) \X (1..MaxCells) : s[1] * s[2] <= MaxCells}}

\* a 3x3 block of one opaque colour
Block3x3 == [y \in 0..2 |-> [x \in 0..2 |-> <<255, 0, 0, 255>>]]

\* a red U around a green bar
UShape3x3 ==
    [y \in 0..2 |-> [x \in 0..2 |->
        IF x = 1 /\ y < 2 THEN <<0, 255, 0, 255>> ELSE <<255, 0, 0, 255>>]]

\* a red and a green opaque pixel side by side
RedGreen2x1 == [y \in 0..0 |-> [x \in 0..1 |->
        IF x = 0 THEN <<255, 0, 0, 255>> ELSE <<0, 255, 0, 255>>]]

\* one colour at two different opacities, and a near-white pixel
Shades3x1 == [y \in 0..0 |-> [x \in 0..2 |->
        IF x = 0 THEN <<0, 255, 0, 255>>
        ELSE IF x = 1 THEN <<0, 255, 0, 128>> ELSE <<250, 250, 250, 1>>]]

ScenarioGrids == {Block3x3, UShape3x3, RedGreen2x1, Shades3x1}

Grids == BoundedGrids \cup ScenarioGrids

NoImage == <<>>

----------------------------------------------------------------------------
(* rgb_to_hex, convert_array_to_hex *)

HexDigits == <<"0", "1", "2", "3", "4", "5", "6", "7",
               "8", "9", "A", "B", "C", "D", "E", "F">>

\* f"{n:02X}" for n in 0..255
Hex02X(n) == <<HexDigits[(n \div 16) + 1], HexDigits[(n % 16) + 1]>>

rgb_to_hex(rgb) == Hex02X(rgb[1]) \o Hex02X(rgb[2]) \o Hex02X(rgb[3])

Rgb(pixel) == <<pixel[1], pixel[2], pixel[3]>>

HexOfPixel(pixel) == IF pixel[4] > 0 THEN rgb_to_hex(Rgb(pixel)) ELSE None

convert_array_to_hex(rgb_array) ==
    [y \in DOMAIN rgb_array |-> [x \in DOMAIN rgb_array[y] |-> HexOfPixel(rgb_array[y][x])]]

----------------------------------------------------------------------------
(* find_connected_regions *)

InBounds(cx, cy, arr) == 0 <= cx /\ cx < Width(arr) /\ 0 <= cy /\ cy < Height(arr)

\* line 56 without the colour test
SkipPoppedAnyColor(cx, cy, arr, vis, col) ==
    \/ ~InBounds(cx, cy, arr)
    \/ vis[cy][cx]

\* line 56: the popped coordinate is skipped
SkipPopped(cx, cy, arr, vis, col) ==
    \/ ~InBounds(cx, cy, arr)
    \/ vis[cy][cx]
    \/ arr[cy][cx] # col

\* line 60 without the left neighbour
NeighboursNoLeft(cx, cy) == <<<<cx + 1, cy>>, <<cx, cy + 1>>, <<cx, cy - 1>>>>

\* line 60: the four coordinates pushed for a visited pixel
Neighbours(cx, cy) == <<<<cx + 1, cy>>, <<cx - 1, cy>>, <<cx, cy + 1>>, <<cx, cy - 1>>>>

\* line 59 inserting at the front
AddToRegionFront(reg, c) == <<c>> \o reg

\* line 59
AddToRegion(reg, c) == Append(reg, c)

\* line 65 without the transparency test
StartsRegionAnyPixel(x, y, arr, vis) == ~vis[y][x]

\* line 65: the scanned pixel starts a new region
StartsRegion(x, y, arr, vis) == ~vis[y][x] /\ arr[y][x] # None

HasColor(regs, col) == \E i \in DOMAIN regs : regs[i].color = col

\* line 69: regions.setdefault(color, []).append(region)
AppendRegion(regs, col, reg) ==
    IF HasColor(regs, col)
    THEN [i \in DOMAIN regs |->
            IF regs[i].color = col
            THEN [regs[i] EXCEPT !.list = Append(@, reg)]
            ELSE regs[i]]
    ELSE Append(regs, [color |-> col, list |-> <<reg>>])

\* the loop variables after one more iteration of "for x in range(width)"
NextX(x, arr) == IF x + 1 < Width(arr) THEN x + 1 ELSE 0
NextY(x, y, arr) == IF x + 1 < Width(arr) THEN y ELSE y + 1

FillVars == <<visited, regions, sx, sy, color, stack, region, pushes>>
FsVars == <<dirs, files>>
EnvVars == <<input_exists, image>>

\* lines 46-48
BeginFill ==
    /\ pc = "segment"
    /\ visited' = [y \in DOMAIN hex_array |-> [x \in DOMAIN hex_array[y] |-> FALSE]]
    /\ regions' = <<>>
    /\ sx' = 0
    /\ sy' = 0
    /\ pc' = "scan"
    /\ UNCHANGED <<EnvVars, FsVars, color_array, hex_array, color, stack, region, pushes>>

\* lines 63-67, 51-52: the scan reaches a pixel that starts a region
ScanStart ==
    /\ pc = "scan"
    /\ sy < Height(hex_array)
    /\ StartsRegion(sx, sy, hex_array, visited)
    /\ color' = hex_array[sy][sx]
    /\ stack' = <<<<sx, sy>>>>
    /\ region' = <<>>
    /\ pushes' = pushes + 1
    /\ pc' = "explore"
    /\ UNCHANGED <<EnvVars, FsVars, color_array, hex_array, visited, regions, sx, sy>>

\* lines 63-65: the scan passes a visited or transparent pixel
ScanSkip ==
    /\ pc = "scan"
    /\ sy < Height(hex_array)
    /\ ~StartsRegion(sx, sy, hex_array, visited)
    /\ sx' = NextX(sx, hex_array)
    /\ sy' = NextY(sx, sy, hex_array)
    /\ UNCHANGED <<pc, EnvVars, FsVars, color_array, hex_array, visited, regions,
                   color, stack, region, pushes>>

\* lines 54-60: one iteration of "while stack"
ExplorePop ==
    /\ pc = "explore"
    /\ stack # <<>>
    /\ LET c == stack[Len(stack)]
           rest == SubSeq(stack, 1, Len(stack) - 1)
       IN IF SkipPopped(c[1], c[2], hex_array, visited, color)
          THEN /\ stack' = rest
               /\ UNCHANGED <<visited, region, pushes>>
          ELSE /\ visited' = [visited EXCEPT ![c[2]][c[1]] = TRUE]
               /\ region' = AddToRegion(region, c)
               /\ stack' = rest \o Neighbours(c[1], c[2])
               /\ pushes' = pushes + Len(Neighbours(c[1], c[2]))
    /\ UNCHANGED <<pc, EnvVars, FsVars, color_array, hex_array, regions, sx, sy, color>>

\* lines 61, 67-69: explore_region returns, the scan moves on
ExploreReturn ==
    /\ pc = "explore"
    /\ stack = <<>>
    /\ regions' = IF region # <<>> THEN AppendRegion(regions, color, region) ELSE regions
    /\ sx' = NextX(sx, hex_array)
    /\ sy' = NextY(sx, sy, hex_array)
    /\ pc' = "scan"
    /\ UNCHANGED <<EnvVars, FsVars, color_array, hex_array, visited, color, stack,
                   region, pushes>>

\* line 71: the scan is over, find_connected_regions returns
EndFill ==
    /\ pc = "scan"
    /\ sy >= Height(hex_array)
    /\ pc' = "dxf"
    /\ UNCHANGED <<EnvVars, FsVars, color_array, hex_array, FillVars>>

----------------------------------------------------------------------------
(* find_closest_aci *)

\* int(ch, 16)
HexVal(ch) == CHOOSE n \in 0..15 : HexDigits[n + 1] = ch

HexPair(hex, i) == HexVal(hex[i]) * 16 + HexVal(hex[i + 1])

\* the reference palette LUT.ACI_COLORS in insertion order: <<index, <<r, g, b>>>>
ACI_COLORS ==
    << <<1, <<255, 0, 0>>>>,
       <<2, <<255, 255, 0>>>>,
       <<3, <<0, 255, 0>>>>,
       <<4, <<0, 255, 255>>>>,
       <<5, <<0, 0, 255>>>>,
       <<6, <<255, 0, 255>>>>,
       <<7, <<255, 255, 255>>>> >>

Sq(n) == n * n

\* line 34: the key of min()
AciDistance(r, g, b, aci) == Sq(r - aci[2][1]) + Sq(g - aci[2][2]) + Sq(b - aci[2][3])

\* lines 30-36; min() returns the first minimal item
find_closest_aci(hex_color) ==
    LET r == HexPair(hex_color, 1)
        g == HexPair(hex_color, 3)
        b == HexPair(hex_color, 5)
        d(k) == AciDistance(r, g, b, ACI_COLORS[k])
        best == CHOOSE k \in DOMAIN ACI_COLORS :
                    \A j \in DOMAIN ACI_COLORS :
                        /\ d(k) <= d(j)
                        /\ j < k => d(j) > d(k)
    IN ACI_COLORS[best][1]

----------------------------------------------------------------------------
(* ezdxf documents: a header unit, the layer table, the modelspace lines *)

\* ezdxf.new(): layers "0" and "Defpoints", empty modelspace
ezdxf_new ==
    [insunits |-> 0,
     layers |-> << [name |-> <<"0">>, color |-> 7],
                   [name |-> <<"Defpoints">>, color |-> 7] >>,
     msp |-> <<>>]

HasLayer(doc, name) == \E i \in DOMAIN doc.layers : doc.layers[i].name = name

RemoveLayer(doc, name) ==
    [doc EXCEPT !.layers = SelectSeq(@, LAMBDA l : l.name # name)]

AddLayer(doc, name, aci) ==
    [doc EXCEPT !.layers = Append(@, [name |-> name, color |-> aci])]

AddLines(doc, lines) == [doc EXCEPT !.msp = @ \o lines]

\* lines 75-80 and 88-92
NewDocument(u) ==
    LET doc == [ezdxf_new EXCEPT !.insunits = u]
    IN IF HasLayer(doc, <<"Defpoints">>) THEN RemoveLayer(doc, <<"Defpoints">>) ELSE doc

\* the layers a document holds beyond the ones ezdxf creates
AddedLayers(doc) == SelectSeq(doc.layers, LAMBDA l : l.name # <<"0">>)

LinesOnLayer(doc, name) == SelectSeq(doc.msp, LAMBDA l : l.layer = name)

----------------------------------------------------------------------------
(* draw_region_outlines *)

\* line 83 with singles styled like multi_colored
aci_color_of_colored_singles(mode, hex_color) ==
    IF mode \in {"multi_colored", "singles"} THEN find_closest_aci(hex_color) ELSE DefaultAci

\* line 83
aci_color_of(mode, hex_color) ==
    IF mode = "multi_colored" THEN find_closest_aci(hex_color) ELSE DefaultAci

\* line 84 without the mono case
layer_name_of_always_hex(mode, hex_color) == <<"#">> \o hex_color

\* line 84
layer_name_of(mode, hex_color) ==
    IF mode = "mono" THEN <<"segments">> ELSE <<"#">> \o hex_color

\* str.lstrip(ch)
RECURSIVE lstrip(_, _)
lstrip(name, ch) ==
    IF name # <<>> /\ Head(name) = ch THEN lstrip(Tail(name), ch) ELSE name

InRegion(c, reg) == \E i \in DOMAIN reg : reg[i] = c

Line(p1, p2, layer) == [start |-> p1, end |-> p2, layer |-> layer]

\* lines 105-112 with the last test repeating the upper neighbour
PixelOutlineTopTwice(reg, x, y, ps, layer) ==
    (IF ~InRegion(<<x - 1, y>>, reg)
     THEN <<Line(<<x * ps, -y * ps>>, <<x * ps, -(y + 1) * ps>>, layer)>> ELSE <<>>)
    \o
    (IF ~InRegion(<<x + 1, y>>, reg)
     THEN <<Line(<<(x + 1) * ps, -y * ps>>, <<(x + 1) * ps, -(y + 1) * ps>>, layer)>> ELSE <<>>)
    \o
    (IF ~InRegion(<<x, y - 1>>, reg)
     THEN <<Line(<<x * ps, -y * ps>>, <<(x + 1) * ps, -y * ps>>, layer)>> ELSE <<>>)
    \o
    (IF ~InRegion(<<x, y - 1>>, reg)
     THEN <<Line(<<x * ps, -(y + 1) * ps>>, <<(x + 1) * ps, -(y + 1) * ps>>, layer)>> ELSE <<>>)

\* lines 105-112: the lines added for pixel (x, y) of reg
PixelOutline(reg, x, y, ps, layer) ==
    (IF ~InRegion(<<x - 1, y>>, reg)
     THEN <<Line(<<x * ps, -y * ps>>, <<x * ps, -(y + 1) * ps>>, layer)>> ELSE <<>>)
    \o
    (IF ~InRegion(<<x + 1, y>>, reg)
     THEN <<Line(<<(x + 1) * ps, -y * ps>>, <<(x + 1) * ps, -(y + 1) * ps>>, layer)>> ELSE <<>>)
    \o
    (IF ~InRegion(<<x, y - 1>>, reg)
     THEN <<Line(<<x * ps, -y * ps>>, <<(x + 1) * ps, -y * ps>>, layer)>> ELSE <<>>)
    \o
    (IF ~InRegion(<<x, y + 1>>, reg)
     THEN <<Line(<<x * ps, -(y + 1) * ps>>, <<(x + 1) * ps, -(y + 1) * ps>>, layer)>> ELSE <<>>)

\* lines 104-112: "for x, y in region", from the i-th pixel on
RECURSIVE RegionOutlineFrom(_, _, _, _)
RegionOutlineFrom(reg, i, ps, layer) ==
    IF i > Len(reg) THEN <<>>
    ELSE PixelOutline(reg, reg[i][1], reg[i][2], ps, layer)
         \o RegionOutlineFrom(reg, i + 1, ps, layer)

RegionOutline(reg, ps, layer) == RegionOutlineFrom(reg, 1, ps, layer)

\* lines 103-112: "for region in color_regions", regions 1..n of the list
RECURSIVE OutlinesUpTo(_, _, _, _)
OutlinesUpTo(list, n, ps, layer) ==
    IF n = 0 THEN <<>>
    ELSE OutlinesUpTo(list, n - 1, ps, layer) \o RegionOutline(list[n], ps, layer)

\* lines 82-84, 97-112 for modes other than singles, from the k-th colour on
RECURSIVE DrawLayers(_, _, _, _, _)
DrawLayers(doc, regs, k, ps, mode) ==
    IF k > Len(regs) THEN doc
    ELSE LET hex_color == regs[k].color
             name == layer_name_of(mode, hex_color)
             withLayer == IF HasLayer(doc, name) THEN doc
                          ELSE AddLayer(doc, name, aci_color_of(mode, hex_color))
             list == regs[k].list
         IN DrawLayers(AddLines(withLayer, OutlinesUpTo(list, Len(list), ps, name)),
                       regs, k + 1, ps, mode)

SinglesPath(output_path, name) ==
    [dir |-> output_path.dir, name |-> <<"HEX_">> \o lstrip(name, "#") \o <<".dxf">>]

\* lines 86-94, 103-116 in mode singles: the documents saved for the k-th colour,
\* one saveas after each of its regions
SinglesSaves(regs, k, output_path, ps, u, mode) ==
    LET hex_color == regs[k].color
        name == layer_name_of(mode, hex_color)
        single_doc == AddLayer(NewDocument(u), name, aci_color_of(mode, hex_color))
        list == regs[k].list
    IN [j \in 1..Len(list) |->
          [path |-> SinglesPath(output_path, name),
           content |-> AddLines(single_doc, OutlinesUpTo(list, j, ps, name))]]

RECURSIVE AllSinglesSaves(_, _, _, _, _, _)
AllSinglesSaves(regs, k, output_path, ps, u, mode) ==
    IF k > Len(regs) THEN <<>>
    ELSE SinglesSaves(regs, k, output_path, ps, u, mode)
         \o AllSinglesSaves(regs, k + 1, output_path, ps, u, mode)

\* lines 74-120: the sequence of saveas calls one call makes
draw_region_outlines(regs, output_path, ps, u, mode) ==
    IF mode = "singles"
    THEN AllSinglesSaves(regs, 1, output_path, ps, u, mode)
    ELSE << [path |-> [dir |-> output_path.dir, name |-> output_path.name \o <<".dxf">>],
             content |-> DrawLayers(NewDocument(u), regs, 1, ps, mode)] >>

----------------------------------------------------------------------------
(* The file system below output_folder *)

OutputFolder == "img_output"
DxfFolder == "img_output/DXF"
SinglesFolder == "img_output/DXF/Singles"
PngFolder == "img_output/PNG"
PngSinglesFolder == "img_output/PNG/Single-Color"

NoFiles == [p \in {} |-> <<>>]

WriteFile(fs, path, content) ==
    [p \in DOMAIN fs \cup {path} |-> IF p = path THEN content ELSE fs[p]]

RECURSIVE SaveAll(_, _, _)
SaveAll(fs, saves, i) ==
    IF i > Len(saves) THEN fs
    ELSE SaveAll(WriteFile(fs, saves[i].path, saves[i].content), saves, i + 1)

\* an output folder left by an earlier run
StalePath == [dir |-> DxfFolder, name |-> <<"old", ".dxf">>]
StaleDirs == {OutputFolder, DxfFolder}
StaleFiles == WriteFile(NoFiles, StalePath, NewDocument(4))

----------------------------------------------------------------------------
(* needs_border, array_to_scaled_png, array_to_pngs *)

\* lines 123-136 without the transparency test
needs_border_ignoring_alpha(rgb_array, x, y, dx, dy, col) ==
    LET neighbor_x == x + dx
        neighbor_y == y + dy
    IN IF \/ neighbor_x < 0 \/ neighbor_x >= Width(rgb_array)
          \/ neighbor_y < 0 \/ neighbor_y >= Height(rgb_array)
       THEN TRUE
       ELSE Rgb(rgb_array[neighbor_y][neighbor_x]) # col

\* lines 123-136
needs_border(rgb_array, x, y, dx, dy, col) ==
    LET neighbor_x == x + dx
        neighbor_y == y + dy
    IN IF \/ neighbor_x < 0 \/ neighbor_x >= Width(rgb_array)
          \/ neighbor_y < 0 \/ neighbor_y >= Height(rgb_array)
       THEN TRUE
       ELSE LET neighbor_pixel == rgb_array[neighbor_y][neighbor_x]
            IN neighbor_pixel[4] = 0 \/ Rgb(neighbor_pixel) # col

\* lines 143 and 172
unique_colors(rgb_array) ==
    {Rgb(rgb_array[c[2]][c[1]]) : c \in {d \in Coords(rgb_array) : rgb_array[d[2]][d[1]][4] > 0}}

\* line 164
pixel_size_in_pixels(ps, u) ==
    IF u = "mm" THEN (ps * Dpi * 10) \div 254 ELSE ps * Dpi

\* lines 177-182
region_pixels(rgb_array, col) ==
    {c \in Coords(rgb_array) :
        Rgb(rgb_array[c[2]][c[1]]) = col /\ rgb_array[c[2]][c[1]][4] > 0}

\* lines 184-219: the lines drawn for pixel (x, y) of colour col
PreviewLines(rgb_array, x, y, col, s) ==
    LET left == x * s
        top == y * s
        right == (x + 1) * s
        bottom == (y + 1) * s
    IN IF rgb_array[y][x][4] = 0 THEN {}
       ELSE (IF needs_border(rgb_array, x, y, 0, -1, col)
             THEN {<<<<left, top>>, <<right, top>>>>} ELSE {})
            \cup
            (IF needs_border(rgb_array, x, y, 0, 1, col)
             THEN {<<<<left, bottom>>, <<right, bottom>>>>} ELSE {})
            \cup
            (IF needs_border(rgb_array, x, y, -1, 0, col)
             THEN {<<<<left, top>>, <<left, bottom>>>>} ELSE {})
            \cup
            (IF needs_border(rgb_array, x, y, 1, 0, col)
             THEN {<<<<right, top>>, <<right, bottom>>>>} ELSE {})

\* lines 162-228: the saved image as its size, the black lines drawn on the white
\* background, their width and the resolution
array_to_scaled_png(rgb_array, png_folder, ps, u, lw, out_name) ==
    LET s == pixel_size_in_pixels(ps, u)
    IN [path |-> [dir |-> png_folder, name |-> <<out_name, "_print.png">>],
        content |->
          [size |-> <<Width(rgb_array) * s, Height(rgb_array) * s>>,
           lines |-> UNION {PreviewLines(rgb_array, c[1], c[2], col, s) :
                              <<c, col>> \in {e \in Coords(rgb_array) \X unique_colors(rgb_array) :
                                                e[1] \in region_pixels(rgb_array, e[2])}},
           width |-> lw,
           dpi |-> Dpi]]

\* lines 146-153 without the colour comparison
MaskPixelAnyColor(current_color, col) ==
    IF current_color[4] > 0 THEN current_color ELSE <<0, 0, 0, 0>>

\* lines 146-153: the pixel of the mask of colour col at a position holding current_color
MaskPixel(current_color, col) ==
    IF current_color[4] > 0 /\ Rgb(current_color) = col
    THEN current_color
    ELSE <<0, 0, 0, 0>>

Mask(rgb_array, col) ==
    [y \in DOMAIN rgb_array |-> [x \in DOMAIN rgb_array[y] |-> MaskPixel(rgb_array[y][x], col)]]

\* lines 156-157
MaskPath(png_folder, col) ==
    [dir |-> png_folder, name |-> <<"HEX_">> \o lstrip(rgb_to_hex(col), "#") \o <<".png">>]

\* lines 139-159: the files after every colour's mask is saved
array_to_pngs(fs, rgb_array, png_folder) ==
    LET paths == {MaskPath(png_folder, col) : col \in unique_colors(rgb_array)}
    IN [p \in DOMAIN fs \cup paths |->
          IF p \in paths
          THEN Mask(rgb_array, CHOOSE col \in unique_colors(rgb_array) : MaskPath(png_folder, col) = p)
          ELSE fs[p]]

----------------------------------------------------------------------------
(* main *)

\* line 304
UnitCode(u) == IF u = "mm" THEN 4 ELSE 1

dxf_options == <<"mono", "multi", "multi_colored">>

DxfPath(option) == [dir |-> DxfFolder, name |-> <<output_name, "-", option>>]

\* lines 299-306
RECURSIVE DrawOptions(_, _, _)
DrawOptions(fs, regs, i) ==
    IF i > Len(dxf_options) THEN fs
    ELSE DrawOptions(
           SaveAll(fs, draw_region_outlines(regs, DxfPath(dxf_options[i]), pixel_size,
                                            UnitCode(unit), dxf_options[i]), 1),
           regs, i + 1)

MainVars == <<color_array, hex_array>>

Init ==
    /\ pc = "start"
    /\ input_exists \in BOOLEAN
    /\ image \in (IF input_exists THEN Grids ELSE {NoImage})
    /\ \/ dirs = {} /\ files = NoFiles
       \/ dirs = StaleDirs /\ files = StaleFiles
    /\ color_array = <<>>
    /\ hex_array = <<>>
    /\ visited = <<>>
    /\ regions = <<>>
    /\ sx = 0
    /\ sy = 0
    /\ color = None
    /\ stack = <<>>
    /\ region = <<>>
    /\ pushes = 0

\* main without the existence test
AfterCheckSkipped(exists) == "cleanup"

\* lines 254-255: where main goes after the existence test
AfterCheck(exists) == IF ~exists THEN "error" ELSE "cleanup"

\* lines 254-259: SystemExit with a message when the input file is missing
CheckInput ==
    /\ pc = "start"
    /\ pc' = AfterCheck(input_exists)
    /\ UNCHANGED <<EnvVars, FsVars, MainVars, FillVars>>

\* lines 262-263
CleanUp ==
    /\ pc = "cleanup"
    /\ IF OutputFolder \in dirs
       THEN dirs' = {} /\ files' = NoFiles
       ELSE UNCHANGED FsVars
    /\ pc' = "makedirs"
    /\ UNCHANGED <<EnvVars, MainVars, FillVars>>

\* lines 266-282
MakeDirs ==
    /\ pc = "makedirs"
    /\ dirs' = dirs \cup {OutputFolder, DxfFolder, SinglesFolder, PngFolder, PngSinglesFolder}
    /\ pc' = "load"
    /\ UNCHANGED <<EnvVars, files, MainVars, FillVars>>

\* lines 291-292
CreateArrays ==
    /\ pc = "load"
    /\ color_array' = image
    /\ hex_array' = convert_array_to_hex(image)
    /\ pc' = "segment"
    /\ UNCHANGED <<EnvVars, FsVars, FillVars>>

\* lines 296-306
DrawMultiLayer ==
    /\ pc = "dxf"
    /\ files' = DrawOptions(files, regions, 1)
    /\ pc' = "singles"
    /\ UNCHANGED <<EnvVars, dirs, MainVars, FillVars>>

\* line 309
DrawSingles ==
    /\ pc = "singles"
    /\ files' = SaveAll(files,
                        draw_region_outlines(regions, [dir |-> SinglesFolder, name |-> <<>>],
                                             pixel_size, UnitCode(unit), "singles"), 1)
    /\ pc' = "print"
    /\ UNCHANGED <<EnvVars, dirs, MainVars, FillVars>>

\* line 312
ScaledPng ==
    /\ pc = "print"
    /\ LET save == array_to_scaled_png(color_array, PngFolder, pixel_size, unit,
                                       line_width, output_name)
       IN files' = WriteFile(files, save.path, save.content)
    /\ pc' = "pngs"
    /\ UNCHANGED <<EnvVars, dirs, MainVars, FillVars>>

\* lines 315-317
SinglePngs ==
    /\ pc = "pngs"
    /\ files' = array_to_pngs(files, color_array, PngSinglesFolder)
    /\ pc' = "done"
    /\ UNCHANGED <<EnvVars, dirs, MainVars, FillVars>>

Next ==
    \/ CheckInput
    \/ CleanUp
    \/ MakeDirs
    \/ CreateArrays
    \/ BeginFill
    \/ ScanStart
    \/ ScanSkip
    \/ ExplorePop
    \/ ExploreReturn
    \/ EndFill
    \/ DrawMultiLayer
    \/ DrawSingles
    \/ ScaledPng
    \/ SinglePngs

Spec == Init /\ [][Next]_vars

----------------------------------------------------------------------------
(* Properties of the region segmenter *)

\* find_connected_regions has returned
Segmented == pc \in {"dxf", "singles", "print", "pngs", "done"}

\* <<k, j>>: the j-th region of the k-th colour
RegionIds == UNION {{<<k, j>> : j \in DOMAIN regions[k].list} : k \in DOMAIN regions}

RegionAt(id) == regions[id[1]].list[id[2]]

ColorAt(id) == regions[id[1]].color

PixelSet(reg) == {reg[i] : i \in DOMAIN reg}

\* the entries of the result holding coordinate c
Occurrences(c) ==
    UNION {{<<id, i>> : i \in {n \in DOMAIN RegionAt(id) : RegionAt(id)[n] = c}} : id \in RegionIds}

NonTransparent(arr) == {c \in Coords(arr) : arr[c[2]][c[1]] # None}

\* C1: in the result of find_connected_regions every non-transparent pixel
\* coordinate occurs exactly once over all colours and regions, no transparent
\* coordinate and no coordinate outside the grid occurs at all, and each colour
\* has one entry.
C1_Partition ==
    Segmented =>
        /\ \A c \in Coords(hex_array) :
              Cardinality(Occurrences(c)) = IF c \in NonTransparent(hex_array) THEN 1 ELSE 0
        /\ \A id \in RegionIds : PixelSet(RegionAt(id)) \subseteq NonTransparent(hex_array)
        /\ \A id \in RegionIds : Cardinality(PixelSet(RegionAt(id))) = Len(RegionAt(id))
        /\ \A k1, k2 \in DOMAIN regions : regions[k1].color = regions[k2].color => k1 = k2

C1_Witness ==
    /\ Segmented
    /\ Cardinality(RegionIds) >= 2
    /\ NonTransparent(hex_array) # Coords(hex_array)
    /\ \E id \in RegionIds : Len(RegionAt(id)) >= 2

Adjacent(a, b) ==
    \/ a[1] = b[1] /\ (a[2] = b[2] + 1 \/ b[2] = a[2] + 1)
    \/ a[2] = b[2] /\ (a[1] = b[1] + 1 \/ b[1] = a[1] + 1)

\* the pixels of S joined to a pixel of R by a path of 4-adjacent pixels of S
RECURSIVE Reachable(_, _)
Reachable(R, S) ==
    LET more == {c \in S \ R : \E r \in R : Adjacent(c, r)}
    IN IF more = {} THEN R ELSE Reachable(R \cup more, S)

Connected(S) == S = {} \/ \A c \in S : Reachable({c}, S) = S

\* C2: every region listed under colour key c is a maximal 4-connected set of
\* pixels of colour c: all its pixels have key c, any two are joined by a path
\* of 4-adjacent pixels inside the region, and no pixel of key c outside the
\* region is 4-adjacent to one of its pixels.
C2_MaximalRegions ==
    Segmented =>
        \A id \in RegionIds :
            LET S == PixelSet(RegionAt(id))
            IN /\ S # {}
               /\ \A c \in S : c \in Coords(hex_array) /\ hex_array[c[2]][c[1]] = ColorAt(id)
               /\ Connected(S)
               /\ \A c \in Coords(hex_array) \ S :
                     hex_array[c[2]][c[1]] = ColorAt(id) => \A r \in S : ~Adjacent(c, r)

\* two regions of one colour, one of them bent (not a straight run)
C2_Witness ==
    /\ Segmented
    /\ \E id1, id2 \in RegionIds : id1[1] = id2[1] /\ id1[2] # id2[2]
    /\ \E id \in RegionIds :
          \E a, b \in PixelSet(RegionAt(id)) : a[1] # b[1] /\ a[2] # b[2]

\* row-major order of coordinates <<x, y>>
RowMajorLess(a, b) == a[2] < b[2] \/ (a[2] = b[2] /\ a[1] < b[1])

\* C9: the first coordinate stored in each region is its topmost-then-leftmost
\* pixel, and the regions of each colour are listed in strictly increasing
\* row-major order of those pixels.
C9_DiscoveryOrder ==
    Segmented =>
        /\ \A id \in RegionIds :
              \A c \in PixelSet(RegionAt(id)) \ {RegionAt(id)[1]} :
                  RowMajorLess(RegionAt(id)[1], c)
        /\ \A id1, id2 \in RegionIds :
              (id1[1] = id2[1] /\ id1[2] < id2[2])
                  => RowMajorLess(RegionAt(id1)[1], RegionAt(id2)[1])

\* a colour with two regions, and a region whose first pixel is not its leftmost
C9_Witness ==
    /\ Segmented
    /\ \E id1, id2 \in RegionIds : id1[1] = id2[1] /\ id1[2] # id2[2]
    /\ \E id \in RegionIds :
          \E c \in PixelSet(RegionAt(id)) : c[1] < RegionAt(id)[1][1]

VisitedCells == {c \in Coords(hex_array) : visited[c[2]][c[1]]}

InFill == pc \in {"scan", "explore"}

\* scan positions not yet passed, and a measure of the work left: every step of
\* the flood fill lowers it by at least one
Remaining == (Height(hex_array) - sy) * Width(hex_array) - sx

FillVariant ==
    3 * Remaining + (IF pc = "scan" THEN 2 ELSE 0) + Len(stack)
    + 4 * Cardinality(Coords(hex_array) \ VisitedCells)

\* what one step of the flood fill may do
FillStepBounded ==
    /\ VisitedCells \subseteq VisitedCells'
    /\ (pc = "explore" /\ pc' = "explore") =>
          IF region' # region
          THEN /\ pushes' = pushes + 4
               /\ Cardinality(VisitedCells') = Cardinality(VisitedCells) + 1
               /\ Len(region') = Len(region) + 1
          ELSE pushes' = pushes /\ Len(stack') = Len(stack) - 1
    /\ pushes' <= 5 * Cardinality(NonTransparent(hex_array))
    /\ InFill' => (0 <= FillVariant' /\ FillVariant' < FillVariant)

\* C10: find_connected_regions terminates: inside it a next step always exists
\* and every step lowers a non-negative measure; visited flags are only ever
\* set, a step that adds a coordinate to the region is the only one that pushes
\* (its four neighbours, the coordinate being unvisited before), every other
\* pop pushes nothing, and the pushes of the whole run never exceed five times
\* the number of non-transparent pixels.
C10_Terminates ==
    /\ [][InFill => FillStepBounded]_vars
    /\ [](InFill => ENABLED Next)

C10_Witness ==
    /\ pc = "dxf"
    /\ Cardinality(NonTransparent(hex_array)) >= 3
    /\ pushes = 5 * Cardinality(NonTransparent(hex_array))

----------------------------------------------------------------------------
(* Properties of the outlines *)

DxfWritten == pc \in {"singles", "print", "pngs", "done"}
SinglesWritten == pc \in {"print", "pngs", "done"}

DxfFile(option) == files[[dir |-> DxfFolder, name |-> <<output_name, "-", option, ".dxf">>]]

SinglesFile(hex_color) ==
    files[[dir |-> SinglesFolder, name |-> <<"HEX_">> \o hex_color \o <<".dxf">>]]

Directions == {<<-1, 0>>, <<1, 0>>, <<0, -1>>, <<0, 1>>}

\* the sides <<pixel, direction>> of a region's pixels whose neighbour is not in the region
OpenSides(reg) ==
    {s \in PixelSet(reg) \X Directions :
        <<s[1][1] + s[2][1], s[1][2] + s[2][2]>> \notin PixelSet(reg)}

\* the two corners of a pixel side, in grid coordinates
GridSide(s) ==
    LET x0 == s[1][1] + (IF s[2][1] = 1 THEN 1 ELSE 0)
        y0 == s[1][2] + (IF s[2][2] = 1 THEN 1 ELSE 0)
    IN <<<<x0, y0>>, <<x0 + (IF s[2][1] = 0 THEN 1 ELSE 0), y0 + (IF s[2][2] = 0 THEN 1 ELSE 0)>>>>

\* the same side in document coordinates (y axis inverted)
DocSide(s, ps) ==
    <<<<GridSide(s)[1][1] * ps, -(GridSide(s)[1][2] * ps)>>,
      <<GridSide(s)[2][1] * ps, -(GridSide(s)[2][2] * ps)>>>>

Ends(lines) == {<<lines[i].start, lines[i].end>> : i \in DOMAIN lines}

\* <<region, side>> for every open side of every region / of the regions of one colour
AllOpenSides == UNION {{<<id, s>> : s \in OpenSides(RegionAt(id))} : id \in RegionIds}

OpenSidesOfColor(hex_color) == {e \in AllOpenSides : ColorAt(e[1]) = hex_color}

\* C3: the lines emitted for a region are, one each and without merging, the
\* sides of its pixels whose neighbouring coordinate is not in the region (grid
\* boundary included), so their number is the sum of those sides over the
\* pixels; a document holds that many lines in total; a 3x3 block of one colour
\* is one region of 9 pixels with 12 lines.
C3_BoundaryCount ==
    DxfWritten =>
        /\ \A id \in RegionIds :
              LET lines == RegionOutline(RegionAt(id), pixel_size, <<"segments">>)
                  sides == OpenSides(RegionAt(id))
              IN /\ Len(lines) = Cardinality(sides)
                 /\ Ends(lines) = {DocSide(side, pixel_size) : side \in sides}
                 /\ Cardinality(Ends(lines)) = Len(lines)
        /\ \A option \in {"mono", "multi", "multi_colored"} :
              Len(DxfFile(option).msp) = Cardinality(AllOpenSides)
        /\ image = Block3x3 =>
              /\ Cardinality(RegionIds) = 1
              /\ \A id \in RegionIds : Len(RegionAt(id)) = 9
              /\ Len(DxfFile("mono").msp) = 12

C3_Witness ==
    /\ DxfWritten
    /\ image = Block3x3
    /\ Len(DxfFile("mono").msp) = 12
    /\ \E id \in RegionIds : Cardinality(OpenSides(RegionAt(id))) < 4 * Len(RegionAt(id))

ColorKeys == {hex_array[c[2]][c[1]] : c \in NonTransparent(hex_array)}

LayerNames(doc) == {AddedLayers(doc)[i].name : i \in DOMAIN AddedLayers(doc)}

LayerColor(doc, name) ==
    (CHOOSE l \in {doc.layers[i] : i \in DOMAIN doc.layers} : l.name = name).color

\* the layer of a colour holds exactly the sides of that colour's regions
HoldsColor(doc, hex_color) ==
    LET lines == LinesOnLayer(doc, <<"#">> \o hex_color)
    IN /\ Len(lines) = Cardinality(OpenSidesOfColor(hex_color))
       /\ Ends(lines) = {DocSide(e[2], pixel_size) : e \in OpenSidesOfColor(hex_color)}

\* modes multi and multi_colored: one added layer per colour key
PerColorLayers(doc) ==
    /\ Len(AddedLayers(doc)) = Cardinality(ColorKeys)
    /\ LayerNames(doc) = {<<"#">> \o h : h \in ColorKeys}
    /\ \A h \in ColorKeys : HoldsColor(doc, h)
    /\ Len(doc.msp) = Cardinality(AllOpenSides)

SinglesPaths == {p \in DOMAIN files : p.dir = SinglesFolder}

\* mode singles: one saved document per colour key
PerColorFiles ==
    /\ Cardinality(SinglesPaths) = Cardinality(ColorKeys)
    /\ SinglesPaths = {[dir |-> SinglesFolder, name |-> <<"HEX_">> \o h \o <<".dxf">>] :
                          h \in ColorKeys}
    /\ \A h \in ColorKeys :
          /\ LayerNames(SinglesFile(h)) = {<<"#">> \o h}
          /\ Len(AddedLayers(SinglesFile(h))) = 1
          /\ HoldsColor(SinglesFile(h), h)
          /\ Len(SinglesFile(h).msp) = Cardinality(OpenSidesOfColor(h))

\* mode mono: every line is on the layer "segments"
AllOnSegments(doc) ==
    /\ LayerNames(doc) \subseteq {<<"segments">>}
    /\ Len(LinesOnLayer(doc, <<"segments">>)) = Cardinality(AllOpenSides)
    /\ Len(doc.msp) = Cardinality(AllOpenSides)

RedGreenScenario ==
    image = RedGreen2x1 =>
        /\ Len(AddedLayers(DxfFile("mono"))) = 1
        /\ Len(DxfFile("mono").msp) = 8
        /\ \A option \in {"multi", "multi_colored"} :
              /\ Len(AddedLayers(DxfFile(option))) = 2
              /\ \A h \in ColorKeys : Len(LinesOnLayer(DxfFile(option), <<"#">> \o h)) = 4
        /\ Cardinality(SinglesPaths) = 2

\* C4 as stated: for every grid, mono is one document with exactly one added
\* layer holding all segments, multi and multi_colored have one layer per
\* colour key, singles saves one document per colour key.
C4_AsClaimed ==
    SinglesWritten =>
        /\ Len(AddedLayers(DxfFile("mono"))) = 1
        /\ AllOnSegments(DxfFile("mono"))
        /\ PerColorLayers(DxfFile("multi"))
        /\ PerColorLayers(DxfFile("multi_colored"))
        /\ PerColorFiles
        /\ RedGreenScenario

\* C4: for a grid with k colour keys, mono is one document whose added layers
\* are the single layer "segments" holding the segments of all regions when
\* k >= 1 and no layer at all when k = 0; multi and multi_colored are one
\* document with exactly k added layers, one per colour key, each holding
\* exactly the segments of that colour's regions; singles saves exactly k
\* documents, one per colour key. The red/green 2x1 grid gives 1 layer with 8
\* segments, 2 layers with 4 segments each, and 2 files.
C4_GroupingModes ==
    SinglesWritten =>
        /\ Len(AddedLayers(DxfFile("mono"))) = (IF ColorKeys = {} THEN 0 ELSE 1)
        /\ AllOnSegments(DxfFile("mono"))
        /\ PerColorLayers(DxfFile("multi"))
        /\ PerColorLayers(DxfFile("multi_colored"))
        /\ PerColorFiles
        /\ RedGreenScenario

C4_Witness ==
    /\ SinglesWritten
    /\ image = RedGreen2x1
    /\ Len(DxfFile("mono").msp) = 8
    /\ Cardinality(SinglesPaths) = 2

\* C5 as stated: the layer of each singles document has the colour index that
\* multi_colored gives the layer of the same colour key (the nearest palette
\* index).
C5_AsClaimed ==
    SinglesWritten =>
        \A h \in ColorKeys :
            LayerColor(SinglesFile(h), <<"#">> \o h)
                = LayerColor(DxfFile("multi_colored"), <<"#">> \o h)

\* C5: the layer of each singles document has the default colour index 7, the
\* one mode multi gives the layer of the same colour key, whatever the nearest
\* palette index is; multi_colored alone uses the nearest palette index.
C5_SinglesStyle ==
    SinglesWritten =>
        \A h \in ColorKeys :
            /\ LayerColor(SinglesFile(h), <<"#">> \o h) = DefaultAci
            /\ LayerColor(SinglesFile(h), <<"#">> \o h)
                  = LayerColor(DxfFile("multi"), <<"#">> \o h)
            /\ LayerColor(DxfFile("multi_colored"), <<"#">> \o h) = find_closest_aci(h)

C5_Witness ==
    /\ SinglesWritten
    /\ \E h \in ColorKeys :
          /\ LayerColor(DxfFile("multi_colored"), <<"#">> \o h) # DefaultAci
          /\ LayerColor(SinglesFile(h), <<"#">> \o h) = DefaultAci

----------------------------------------------------------------------------
(* Properties of the rasters *)

Opaque(arr) == {c \in Coords(arr) : arr[c[2]][c[1]][4] > 0}

MaskFile(rgb) ==
    files[[dir |-> PngSinglesFolder, name |-> <<"HEX_">> \o rgb_to_hex(rgb) \o <<".png">>]]

MaskPaths == {p \in DOMAIN files : p.dir = PngSinglesFolder}

\* one mask per colour of the non-transparent pixels, of the input's size
OneMaskPerColor ==
    /\ \A c \in Opaque(color_array) :
          LET rgb == Rgb(color_array[c[2]][c[1]])
          IN /\ [dir |-> PngSinglesFolder,
                 name |-> <<"HEX_">> \o rgb_to_hex(rgb) \o <<".png">>] \in MaskPaths
             /\ Height(MaskFile(rgb)) = Height(color_array)
             /\ Width(MaskFile(rgb)) = Width(color_array)
    /\ Cardinality(MaskPaths)
          = Cardinality({Rgb(color_array[c[2]][c[1]]) : c \in Opaque(color_array)})

\* the pixel at c belongs to the mask of colour rgb
InMask(c, rgb) == color_array[c[2]][c[1]][4] > 0 /\ Rgb(color_array[c[2]][c[1]]) = rgb

\* C6 as stated: in the mask of a colour every pixel of that colour with
\* alpha > 0 has alpha 255 and every other pixel alpha 0.
C6_AsClaimed ==
    pc = "done" =>
        /\ OneMaskPerColor
        /\ \A c0 \in Opaque(color_array) : \A c \in Coords(color_array) :
              LET rgb == Rgb(color_array[c0[2]][c0[1]])
              IN MaskFile(rgb)[c[2]][c[1]][4] = (IF InMask(c, rgb) THEN 255 ELSE 0)

\* C6: array_to_pngs writes one mask per colour key of the non-transparent
\* pixels, of the input's width and height, in which every pixel whose input
\* RGB is that colour and whose input alpha is > 0 is the input pixel unchanged
\* (it keeps its input alpha, so it is fully opaque only where the input alpha
\* is 255) and every other pixel is fully transparent (alpha 0).
C6_Masks ==
    pc = "done" =>
        /\ OneMaskPerColor
        /\ \A c0 \in Opaque(color_array) : \A c \in Coords(color_array) :
              LET rgb == Rgb(color_array[c0[2]][c0[1]])
              IN IF InMask(c, rgb)
                 THEN MaskFile(rgb)[c[2]][c[1]] = color_array[c[2]][c[1]]
                 ELSE MaskFile(rgb)[c[2]][c[1]][4] = 0

\* two colours, one of them half-transparent, next to a transparent pixel
C6_Witness ==
    /\ pc = "done"
    /\ Cardinality(MaskPaths) = 2
    /\ \E c \in Coords(color_array) : color_array[c[2]][c[1]][4] \in 1..254
    /\ \E c \in Coords(color_array) : color_array[c[2]][c[1]][4] = 0

PreviewFile == files[[dir |-> PngFolder, name |-> <<output_name, "_print.png">>]]

\* the pixel sides a document's lines / the preview's lines lie on, in grid coordinates
DxfSides(doc) ==
    {<<<<doc.msp[i].start[1] \div pixel_size, (-doc.msp[i].start[2]) \div pixel_size>>,
       <<doc.msp[i].end[1] \div pixel_size, (-doc.msp[i].end[2]) \div pixel_size>>>> :
        i \in DOMAIN doc.msp}

PreviewSides(img) ==
    LET s == pixel_size_in_pixels(pixel_size, unit)
    IN {<<<<l[1][1] \div s, l[1][2] \div s>>, <<l[2][1] \div s, l[2][2] \div s>>>> :
          l \in img.lines}

\* C8: for every non-transparent pixel and each of its four sides, the
\* neighbour is outside the pixel's region exactly when needs_border holds for
\* that side on the colour grid; the outlines of the DXF documents and the
\* lines of the preview raster lie on the same set of pixel sides.
C8_PoliciesAgree ==
    /\ Segmented =>
          \A c \in Opaque(color_array) :
              \E id \in RegionIds :
                  /\ c \in PixelSet(RegionAt(id))
                  /\ \A d \in Directions :
                        (~InRegion(<<c[1] + d[1], c[2] + d[2]>>, RegionAt(id)))
                            <=> needs_border(color_array, c[1], c[2], d[1], d[2],
                                             Rgb(color_array[c[2]][c[1]]))
    /\ pc \in {"pngs", "done"} =>
          /\ DxfSides(DxfFile("mono")) = PreviewSides(PreviewFile)
          /\ DxfSides(DxfFile("mono")) = {GridSide(e[2]) : e \in AllOpenSides}

\* an opaque pixel next to a transparent pixel of the same RGB, and next to a
\* pixel of its own region
C8_Witness ==
    /\ pc = "done"
    /\ \E c \in Opaque(color_array) : \E d, e \in Directions :
          /\ <<c[1] + d[1], c[2] + d[2]>> \in Coords(color_array) \ Opaque(color_array)
          /\ Rgb(color_array[c[2] + d[2]][c[1] + d[1]]) = Rgb(color_array[c[2]][c[1]])
          /\ <<c[1] + e[1], c[2] + e[2]>> \in Opaque(color_array)
          /\ ~needs_border(color_array, c[1], c[2], e[1], e[2], Rgb(color_array[c[2]][c[1]]))

----------------------------------------------------------------------------
(* Properties of main *)

\* C7: when the input file does not exist the only step is the one to the
\* error exit, and it changes neither the directories nor the files nor any
\* array; every step that deletes or creates a directory or writes a file is
\* taken after the existence check has passed.
C7_InputNotFound ==
    [][ /\ (~input_exists) =>
              /\ pc = "start"
              /\ pc' = "error"
              /\ UNCHANGED <<EnvVars, FsVars, MainVars, FillVars>>
        /\ (dirs' # dirs \/ files' # files) =>
              /\ input_exists
              /\ pc \notin {"start", "error"} ]_vars

\* the run has failed and the output folder of an earlier run is still there
C7_Witness ==
    /\ pc = "error"
    /\ ~input_exists
    /\ dirs = StaleDirs
    /\ files = StaleFiles

====
